---- MODULE Spec2Model ----
(***************************************************************************)
(* AppleSmartBattery (AppleSmartBatteryManager/AppleSmartBattery.cpp):     *)
(* the battery polling state machine, its retry policy, the poll timer,    *)
(* the read-all watchdog and the external triggers, as a state machine.    *)
(*                                                                         *)
(* The object's fields are kept in the record `me` under their source      *)
(* names.  Every handler of the source is an operator from an object       *)
(* record to an object record, so that a handler that calls another one    *)
(* (pollBatteryState -> transactionCompletion, the battery-status case ->  *)
(* handleBatteryRemoved -> clearBatteryState) is modelled by the same      *)
(* call.  While a handler runs, the record also carries the provider's     *)
(* queue of outstanding transactions (`smbus`) and the observation of the  *)
(* handler (`ev`: what it dispatched, issued, logged and published).       *)
(***************************************************************************)
EXTENDS Integers, Sequences, FiniteSets, TLC

VARIABLES
    me,     \* the AppleSmartBattery object: its fields, timers included
    smbus,  \* transactions handed to fProvider->performTransaction, not completed yet
    ev,     \* what the last handler did (rewritten by every action)
    hist,   \* history of the run: retry series, pending requests
    env     \* what the environment may still do (budgets of the model)

vars == <<me, smbus, ev, hist, env>>

(***************************************************************************)
(* Bounds of the model                                                     *)
(***************************************************************************)
\* external events of a run (insert, remove, inflow, inhibit, stall, a
\* transaction lost by the transport)
MaxExternalEvents == 2
\* the same, in a run with a device that fails
MaxEventsUnderFailure == 1
\* the same, in a run of the restart specification
MaxRestartEvents == 1
\* firings of the read-all watchdog in a run
MaxWatchdogFirings == 1
\* firings of the poll timer in a run
MaxPollFirings == 1
\* transactions the transport completes with a status other than OK in a run
MaxFaults == 1
\* the same, in a run of the retry specification
MaxRetryFaults == 7
\* firings of the read-all watchdog in a run of the watchdog specification
MaxStallFirings == 11
\* firings of the poll timer in a run of the countdown specification
MaxCountdownPolls == 5
\* transactions the provider holds at once
MaxOutstanding == 2
\* consecutive re-issues of one command the transport answers
MaxReissue == 7

(***************************************************************************)
(* Program constants                                                       *)
(***************************************************************************)
kExistingBatteryPath == 1
kNewBatteryPath == 2
kRetryAttempts == 5
kInitialPollCountdown == 5
kIncompleteReadRetryMax == 10
kDefaultPollInterval == 0
kQuickPollInterval == 1
kBatteryReadAllTimeout == 10000

milliSecPollingTable == <<30000, 1000>>

microSecDelayTable == <<10, 100, 1000, 10000, 250000>>

\* The start state of the sequencer: transactionCompletion((void *)0, NULL).
StartState == "0"

\* SMBus commands, by their names in the source; the state token of a
\* transaction is its command.
ManagerCmds == {"kMStateContCmd", "kMStateCmd"}

IdentityCmds ==
    {"kBManufactureNameCmd", "kBManufactureDateCmd", "kBDeviceNameCmd",
     "kBSerialNumberCmd", "kBDesignCapacityCmd"}

CellVoltageCmds ==
    {"kBReadCellVoltage1Cmd", "kBReadCellVoltage2Cmd",
     "kBReadCellVoltage3Cmd", "kBReadCellVoltage4Cmd"}

BatteryCmds ==
    {"kBBatteryStatusCmd", "kBRemainingCapacityCmd", "kBFullChargeCapacityCmd",
     "kBAverageCurrentCmd", "kBVoltageCmd", "kBMaxErrorCmd", "kBCycleCountCmd",
     "kBAverageTimeToEmptyCmd", "kBAverageTimeToFullCmd", "kBTemperatureCmd",
     "kBCurrentCmd"} \cup IdentityCmds \cup CellVoltageCmds

Commands == ManagerCmds \cup BatteryCmds

\* IOSMBusStatus values a completed transaction can carry.
RetryStatuses ==
    {"kIOSMBusStatusDeviceAddressNotAcknowledged",
     "kIOSMBusStatusDeviceCommandAccessDenied",
     "kIOSMBusStatusDeviceAccessDenied",
     "kIOSMBusStatusUnknownHostError",
     "kIOSMBusStatusUnknownFailure",
     "kIOSMBusStatusDeviceError",
     "kIOSMBusStatusTimeout",
     "kIOSMBusStatusBusy"}

NonRecoverableStatuses ==
    {"kIOSMBusStatusHostUnsupportedProtocol", "kIOSMBusStatusPECError"}

Statuses == {"kIOSMBusStatusOK"} \cup RetryStatuses \cup NonRecoverableStatuses

STATUS_ERROR_NEEDS_RETRY(err) == err \in RetryStatuses

\* No status counts as not recoverable.
STATUS_ERROR_NON_RECOVERABLE_Never(err) == FALSE

STATUS_ERROR_NON_RECOVERABLE(err) == err \in NonRecoverableStatuses

(***************************************************************************)
(* Received data.  A 16-bit word is a set of named bits (for the bitfield  *)
(* registers) together with a number (for the capacity registers); the     *)
(* word is zero, receiveData[0] == 0 && receiveData[1] == 0, when it has   *)
(* no bit and its number is 0.                                             *)
(***************************************************************************)
Word(bits, value) == [bits |-> bits, value |-> value]

WordIsZero(w) == w.bits = {} /\ w.value = 0

BatteryStatusBits ==
    {"kBFullyChargedStatusBit", "kBFullyDischargedStatusBit",
     "kBTerminateDischargeAlarmBit", "kBTerminateChargeAlarmBit"}

\* What a device may show besides the nominal answers (AC attached, battery
\* present, no status bit, capacities of 100).
Traits ==
    {"acAbsent", "batteryAbsent", "fullyCharged", "fullyDischarged",
     "permanentFailure", "zeroCapacity", "lowCapacity", "charging"}

\* The battery-status bits a device with these traits may set.
StatusBitsOf(traits) ==
    (IF "fullyCharged" \in traits THEN {"kBFullyChargedStatusBit"} ELSE {})
    \cup (IF "fullyDischarged" \in traits THEN {"kBFullyDischargedStatusBit"} ELSE {})
    \cup (IF "permanentFailure" \in traits
            THEN {"kBTerminateDischargeAlarmBit", "kBTerminateChargeAlarmBit"}
            ELSE {})

Capacities(traits, low) ==
    {100} \cup (IF "zeroCapacity" \in traits THEN {0} ELSE {})
          \cup (IF low /\ "lowCapacity" \in traits THEN {4} ELSE {})

\* The cell a cell-voltage command reads.
CellNumber(cmd) ==
    CASE cmd = "kBReadCellVoltage1Cmd" -> 1
      [] cmd = "kBReadCellVoltage2Cmd" -> 2
      [] cmd = "kBReadCellVoltage3Cmd" -> 3
      [] cmd = "kBReadCellVoltage4Cmd" -> 4

\* The words a device with these traits may answer a command with. Every cell
\* answers with a voltage of its own.
ReceiveWords(cmd, traits) ==
    CASE cmd = "kMStateContCmd" ->
            {Word({"kMACPresentBit"}, 0)}
            \cup (IF "acAbsent" \in traits THEN {Word({}, 0)} ELSE {})
      [] cmd = "kMStateCmd" ->
            {Word({"kMPresentBatt_A_Bit"}, 0)}
            \cup (IF "batteryAbsent" \in traits THEN {Word({}, 0)} ELSE {})
            \cup (IF "charging" \in traits
                    THEN {Word({"kMPresentBatt_A_Bit", "kMChargingBatt_A_Bit"}, 0)}
                    ELSE {})
      [] cmd = "kBBatteryStatusCmd" ->
            {Word(b, 0) : b \in SUBSET StatusBitsOf(traits)}
      [] cmd = "kBRemainingCapacityCmd" ->
            {Word({}, v) : v \in Capacities(traits, TRUE)}
      [] cmd = "kBFullChargeCapacityCmd" ->
            {Word({}, v) : v \in Capacities(traits, FALSE)}
      [] cmd = "kBDesignCapacityCmd" ->
            {Word({}, v) : v \in Capacities(traits, FALSE)}
      [] cmd \in CellVoltageCmds ->
            {Word({}, CellNumber(cmd))}
      [] OTHER -> {Word({}, 1)}

\* fCellVoltages == NULL
NullCellVoltages == [null |-> TRUE, values |-> <<>>]

NullTransaction ==
    [null |-> TRUE, address |-> "none", command |-> "none", protocol |-> "none",
     status |-> "none", word |-> Word({}, 0)]

(***************************************************************************)
(* Observation of one handler run                                          *)
(***************************************************************************)
EvFields ==
    {"op", "state", "issued", "retried", "status", "command", "cancelled",
     "reboot", "flagged", "permFail", "published", "logged", "delay",
     "fullDischarge", "zeroRead", "stored", "timerCancelled"}

EvReset(op) ==
    [op |-> op, state |-> "none", issued |-> <<>>, retried |-> FALSE,
     status |-> "none", command |-> "none", cancelled |-> FALSE,
     reboot |-> FALSE, flagged |-> FALSE, permFail |-> FALSE, published |-> <<>>,
     logged |-> {}, delay |-> 0, fullDischarge |-> FALSE, zeroRead |-> FALSE,
     stored |-> <<>>, timerCancelled |-> FALSE]

(***************************************************************************)
(* The object's helpers                                                    *)
(***************************************************************************)
logReadError(o, error_type) ==
    [o EXCEPT !.logged = @ \cup {error_type}]

\* A setter of the power source (setCurrentCapacity, setProperty, ...): the
\* handler stores the value under the key in the snapshot.
setProperty(o, key, value) ==
    [o EXCEPT !.stored = (key :> value) @@ @]

\* properties->removeObject(key), removeProperty(key)
removeProperty(o, key) == setProperty(o, key, "removed")

updateStatus(o, what) ==
    [o EXCEPT !.published = Append(@, what)]

\* fProvider->performTransaction(&fTransaction, ..., (void *)cmd): the request is
\* written to the single buffer fTransaction and handed to the provider.
performTransaction(o, protocol, address, cmd) ==
    [o EXCEPT !.fTransaction =
                  [protocol |-> protocol, address |-> address, command |-> cmd],
              !.smbus = Append(@, [protocol |-> protocol, address |-> address,
                                   command |-> cmd, ref |-> cmd]),
              !.issued = Append(@, cmd)]

readWordAsync(o, address, cmd) ==
    performTransaction(o, "kIOSMBusProtocolReadWord", address, cmd)

readBlockAsync(o, address, cmd) ==
    performTransaction(o, "kIOSMBusProtocolReadBlock", address, cmd)

\* The setters clearBatteryState calls with false and 0.
ClearedFlags == <<"BatteryInstalled", "IsCharging">>

ClearedNumbers ==
    <<"CurrentCapacity", "MaxCapacity", "TimeRemaining", "Amperage", "Voltage",
      "CycleCount", "AdapterInfo", "Location">>

ClearedObjects == <<"Manufacturer", "Serial", "batteryInfoKey">>

RECURSIVE setAll(_, _, _)
setAll(o, keys, value) ==
    IF keys = <<>> THEN o
    ELSE setAll(setProperty(o, Head(keys), value), Tail(keys), value)

\* "if(getProperty(kErrorPermanentFailure))": the property lives only inside
\* the handler that set it, which calls clearBatteryState itself.
HasPermanentFailureProperty(o) ==
    /\ "kErrorPermanentFailure" \in DOMAIN o.stored
    /\ o.stored["kErrorPermanentFailure"] = "set"

\* The snapshot is published whatever do_update says.
clearBatteryState_AlwaysUpdates(o, do_update) ==
    updateStatus(
        [setAll(setAll(setAll(o, ClearedFlags, FALSE), ClearedNumbers, 0),
                ClearedObjects, "removed")
           EXCEPT !.fRetryAttempts = 0, !.fFullyDischarged = FALSE,
                  !.fFullyCharged = FALSE, !.fBatteryPresent = FALSE,
                  !.fACConnected = FALSE, !.fAvgCurrent = 0],
        "cleared")

clearBatteryState(o, do_update) ==
    LET c == [o EXCEPT !.fRetryAttempts = 0,
                       !.fFullyDischarged = FALSE,
                       !.fFullyCharged = FALSE,
                       !.fBatteryPresent = FALSE,
                       !.fACConnected = FALSE,
                       !.fAvgCurrent = 0]
        c1 == setAll(setAll(setAll(c, ClearedFlags, FALSE), ClearedNumbers, 0),
                     ClearedObjects, "removed")
        c2 == IF HasPermanentFailureProperty(c1)
                THEN removeProperty(c1, "kErrorPermanentFailure") ELSE c1
    IN  IF do_update THEN updateStatus(c2, "cleared") ELSE c2

\* The removal asks for a cancellation whether or not a sequence is in flight.
handleBatteryRemoved_AlwaysCancels(o) ==
    clearBatteryState([o EXCEPT !.fCancelPolling = TRUE,
                                !.fPollTimer = 0,
                                !.fBatteryReadAllTimer = 0], TRUE)

handleBatteryRemoved(o) ==
    LET c == IF o.fPollingNow
               THEN [o EXCEPT !.fCancelPolling = TRUE,
                              !.fPollTimer = 0,
                              !.fBatteryReadAllTimer = 0]
               ELSE o
    IN  clearBatteryState(c, TRUE)

(***************************************************************************)
(* The retry policy at the head of transactionCompletion                   *)
(***************************************************************************)
\* The fully-discharged flag is not looked at.
ZeroCapacityNeedsRetry_AnyRemaining(o, t) ==
    /\ t.command \in {"kBFullChargeCapacityCmd", "kBDesignCapacityCmd",
                      "kBRemainingCapacityCmd"}
    /\ WordIsZero(t.word)

\* The zero-capacity test: an absurd zero for FullChargeCapacity, DesignCapacity,
\* or RemainingCapacity while not fully discharged.
ZeroCapacityNeedsRetry(o, t) ==
    /\ \/ t.command = "kBFullChargeCapacityCmd"
       \/ t.command = "kBDesignCapacityCmd"
       \/ (t.command = "kBRemainingCapacityCmd" /\ ~o.fFullyDischarged)
    /\ WordIsZero(t.word)

\* "EVENTUAL SUCCESS after some number of status retries"
StatusRetrySucceeded(o, t) ==
    t.status = "kIOSMBusStatusOK" /\ o.fRetryAttempts # 0

\* "EVENTUAL SUCCESS after zero capacity retry"
ZeroRetrySucceeded(o, t) ==
    /\ t.command \in {"kBRemainingCapacityCmd", "kBDesignCapacityCmd",
                      "kBFullChargeCapacityCmd"}
    /\ ~WordIsZero(t.word)
    /\ o.fRetryAttempts # 0

\* "Too many retries already?"
TooManyRetries(o, needs_retry) ==
    needs_retry /\ kRetryAttempts = o.fRetryAttempts

\* Lines 479-574: the object and transaction_needs_retry after classification.
RetryPolicy(o, t) ==
    LET ok == t.status = "kIOSMBusStatusOK"
        \* status classification
        n1 == STATUS_ERROR_NEEDS_RETRY(t.status)
        o1 == IF ~n1 /\ STATUS_ERROR_NON_RECOVERABLE(t.status)
                THEN logReadError(o, "kErrorNonRecoverableStatus") ELSE o
        \* eventual success after status retries
        s2 == StatusRetrySucceeded(o1, t)
        o2 == IF s2 THEN [o1 EXCEPT !.fRetryAttempts = 0] ELSE o1
        n2 == IF s2 THEN FALSE ELSE n1
        \* absurd zero value
        n3 == IF ok /\ ZeroCapacityNeedsRetry(o2, t) THEN TRUE ELSE n2
        \* eventual success after zero capacity retry
        s4 == ok /\ ZeroRetrySucceeded(o2, t)
        o4 == IF s4 THEN [o2 EXCEPT !.fRetryAttempts = 0] ELSE o2
        n4 == IF s4 THEN FALSE ELSE n3
        \* too many retries
        g5 == TooManyRetries(o4, n4)
        o5 == IF g5
                THEN [logReadError(o4, "kErrorRetryAttemptsExceeded")
                        EXCEPT !.fRetryAttempts = 0]
                ELSE o4
        n5 == IF g5 THEN FALSE ELSE n4
    IN  [o |-> o5, transaction_needs_retry |-> n5]

\* Every retry counts for two.
RetryTransaction_CountsTwice(o, t) ==
    LET d == microSecDelayTable[o.fRetryAttempts + 1]
        c == [o EXCEPT !.delay = d, !.fRetryAttempts = @ + 2, !.retried = TRUE]
    IN  readWordAsync(c, t.address, t.command)

\* Lines 578-604: delay, count, and re-issue the transaction that failed.
RetryTransaction(o, t) ==
    LET d == microSecDelayTable[o.fRetryAttempts + 1]
        c == [o EXCEPT !.delay = d, !.fRetryAttempts = @ + 1, !.retried = TRUE]
    IN  readWordAsync(c, t.address, t.command)

(***************************************************************************)
(* The states of the sequencer: the switch of transactionCompletion        *)
(***************************************************************************)
RECURSIVE transactionCompletion(_, _, _)
RECURSIVE pollBatteryState(_, _)

StatusOK(t) == t.status = "kIOSMBusStatusOK"

\* The watchdog is not armed.
State0_NoWatchdog(o) ==
    readWordAsync([o EXCEPT !.fPollTimer = 0,
                            !.timerCancelled = (o.fPollTimer # 0),
                            !.fCancelPolling = FALSE,
                            !.fPollingNow = TRUE,
                            !.fBatteryReadAllTimer = 0],
                  "kSMBusManagerAddr", "kMStateContCmd")

\* case 0
State0(o) ==
    readWordAsync([o EXCEPT !.fPollTimer = 0,
                            !.timerCancelled = (o.fPollTimer # 0),
                            !.fCancelPolling = FALSE,
                            !.fPollingNow = TRUE,
                            !.fBatteryReadAllTimer = kBatteryReadAllTimeout],
                  "kSMBusManagerAddr", "kMStateContCmd")

\* case kMStateContCmd
StateMStateContCmd(o, t) ==
    LET c == IF StatusOK(t)
               THEN LET new_ac_connected ==
                            ~o.fInflowDisabled /\ "kMACPresentBit" \in t.word.bits
                    IN  setProperty(
                            setProperty([o EXCEPT !.fACConnected = new_ac_connected],
                                        "ExternalConnected", new_ac_connected),
                            "ExternalChargeCapable",
                            "kMPowerNotGoodBit" \notin t.word.bits)
               ELSE setProperty(
                        setProperty([o EXCEPT !.fACConnected = FALSE],
                                    "ExternalConnected", TRUE),
                        "ExternalChargeCapable", FALSE)
    IN  readWordAsync(c, "kSMBusManagerAddr", "kMStateCmd")

\* The decode of case kMStateCmd: presence and charging.
DecodeMState(o, t) ==
    IF StatusOK(t)
      THEN LET present == "kMPresentBatt_A_Bit" \in t.word.bits
           IN  setProperty(
                   setProperty([o EXCEPT !.fBatteryPresent = present],
                               "BatteryInstalled", present),
                   "IsCharging",
                   ~o.fChargeInhibited /\ "kMChargingBatt_A_Bit" \in t.word.bits)
      ELSE setProperty(
               setProperty([o EXCEPT !.fBatteryPresent = FALSE],
                           "BatteryInstalled", FALSE),
               "IsCharging", FALSE)

\* The sequence goes on whether the battery is present or not.
StateMStateCmd_Continue(o, t) ==
    readWordAsync(DecodeMState(o, t), "kSMBusBatteryAddr", "kBBatteryStatusCmd")

\* case kMStateCmd
StateMStateCmd(o, t) ==
    LET c == DecodeMState(o, t)
    IN  IF ~c.fBatteryPresent
          THEN clearBatteryState([c EXCEPT !.fPollingNow = FALSE], TRUE)
          ELSE readWordAsync(c, "kSMBusBatteryAddr", "kBBatteryStatusCmd")

\* Permanent failure: TerminateDischarge and TerminateCharge alarms both set.
PermanentFailure(t) ==
    {"kBTerminateDischargeAlarmBit", "kBTerminateChargeAlarmBit"} \subseteq t.word.bits

\* The identity reads are made on either path.
BatteryStatusNextRead_AlwaysIdentity(o) ==
    readBlockAsync(o, "kSMBusBatteryAddr", "kBManufactureNameCmd")

\* The fork after the battery-status read.
BatteryStatusNextRead(o) ==
    IF kNewBatteryPath = o.fMachinePath
      THEN readBlockAsync(o, "kSMBusBatteryAddr", "kBManufactureNameCmd")
      ELSE readWordAsync(o, "kSMBusBatteryAddr", "kBRemainingCapacityCmd")

\* The provider is told of every read with the fully-discharged bit set.
StateBBatteryStatusCmd_AlwaysHandles(o, t) ==
    LET c == IF ~StatusOK(t)
               THEN [o EXCEPT !.fFullyCharged = FALSE, !.fFullyDischarged = FALSE]
               ELSE LET fd == "kBFullyDischargedStatusBit" \in t.word.bits
                        c1 == [o EXCEPT
                                 !.fFullyCharged = ("kBFullyChargedStatusBit" \in t.word.bits),
                                 !.fFullyDischarged = fd,
                                 !.fullDischarge = fd]
                    IN  IF PermanentFailure(t)
                          THEN handleBatteryRemoved(
                                   [setProperty(
                                        logReadError(c1, "kErrorPermanentFailure"),
                                        "kErrorPermanentFailure", "set")
                                      EXCEPT !.permFail = TRUE,
                                             !.fBatteryReadAllTimer = 0,
                                             !.fPollingNow = FALSE])
                          ELSE c1
    IN  BatteryStatusNextRead(setProperty(c, "FullyCharged", c.fFullyCharged))

\* case kBBatteryStatusCmd
StateBBatteryStatusCmd(o, t) ==
    LET c == IF ~StatusOK(t)
               THEN [o EXCEPT !.fFullyCharged = FALSE, !.fFullyDischarged = FALSE]
               ELSE LET fd == "kBFullyDischargedStatusBit" \in t.word.bits
                        c1 == [o EXCEPT
                                 !.fFullyCharged = ("kBFullyChargedStatusBit" \in t.word.bits),
                                 !.fFullyDischarged = fd,
                                 !.fullDischarge = (fd /\ ~o.fFullyDischarged)]
                    IN  IF PermanentFailure(t)
                          THEN handleBatteryRemoved(
                                   [setProperty(
                                        logReadError(c1, "kErrorPermanentFailure"),
                                        "kErrorPermanentFailure", "set")
                                      EXCEPT !.permFail = TRUE,
                                             !.fBatteryReadAllTimer = 0,
                                             !.fPollingNow = FALSE])
                          ELSE c1
    IN  BatteryStatusNextRead(setProperty(c, "FullyCharged", c.fFullyCharged))

\* case kBRemainingCapacityCmd
StateBRemainingCapacityCmd(o, t) ==
    LET v == IF StatusOK(t) THEN t.word.value ELSE 0
        c == setProperty([o EXCEPT !.fRemainingCapacity = v], "CurrentCapacity", v)
        d == IF 0 = c.fRemainingCapacity
               THEN logReadError(c, "kErrorZeroCapacity") ELSE c
    IN  readWordAsync(d, "kSMBusBatteryAddr", "kBFullChargeCapacityCmd")

\* The quick-poll test of the full-charge-capacity case.
QuickPoll(o) ==
    ((100 * o.fRemainingCapacity) \div o.fFullChargeCapacity) < 5 /\ o.fACConnected

\* case kBFullChargeCapacityCmd
StateBFullChargeCapacityCmd(o, t) ==
    LET c == IF StatusOK(t)
               THEN LET c1 == setProperty(
                                  [o EXCEPT !.fFullChargeCapacity = t.word.value],
                                  "MaxCapacity", t.word.value)
                    IN  IF ~c1.fPollingOverridden /\ c1.fFullChargeCapacity # 0
                          THEN [c1 EXCEPT !.fPollingInterval =
                                             IF QuickPoll(c1) THEN kQuickPollInterval
                                                              ELSE kDefaultPollInterval]
                          ELSE c1
               \* "fFullChargeCapacity == 0;" assigns nothing
               ELSE setProperty(o, "MaxCapacity", 0)
        d == IF 0 = c.fFullChargeCapacity
               THEN logReadError(c, "kErrorZeroCapacity") ELSE c
    IN  readWordAsync(d, "kSMBusBatteryAddr", "kBAverageCurrentCmd")

\* The next read after a state that only stores a snapshot field.
NextCommand(state) ==
    CASE state = "kBManufactureNameCmd" -> "kBManufactureDateCmd"
      [] state = "kBManufactureDateCmd" -> "kBDeviceNameCmd"
      [] state = "kBDeviceNameCmd" -> "kBSerialNumberCmd"
      [] state = "kBSerialNumberCmd" -> "kBDesignCapacityCmd"
      [] state = "kBDesignCapacityCmd" -> "kBRemainingCapacityCmd"
      [] state = "kBAverageCurrentCmd" -> "kBVoltageCmd"
      [] state = "kBVoltageCmd" -> "kBMaxErrorCmd"
      [] state = "kBMaxErrorCmd" -> "kBCycleCountCmd"
      [] state = "kBCycleCountCmd" -> "kBAverageTimeToEmptyCmd"
      [] state = "kBAverageTimeToEmptyCmd" -> "kBAverageTimeToFullCmd"
      [] state = "kBAverageTimeToFullCmd" -> "kBTemperatureCmd"
      [] state = "kBTemperatureCmd" -> "kBReadCellVoltage1Cmd"
      \* readWordAsync(kSMBusBatteryAddr, next_state - 1)
      [] state = "kBReadCellVoltage1Cmd" -> "kBReadCellVoltage2Cmd"
      [] state = "kBReadCellVoltage2Cmd" -> "kBReadCellVoltage3Cmd"
      [] state = "kBReadCellVoltage3Cmd" -> "kBReadCellVoltage4Cmd"
      [] state = "kBReadCellVoltage4Cmd" -> "kBCurrentCmd"

\* The block reads of the sequence.
BlockCmds == {"kBManufactureNameCmd", "kBDeviceNameCmd"}

\* The property a case stores a word under.
PropertyOf(state) ==
    CASE state = "kBManufactureDateCmd" -> "ManufactureDate"
      [] state = "kBDesignCapacityCmd" -> "DesignCapacity"
      [] state = "kBVoltageCmd" -> "Voltage"
      [] state = "kBMaxErrorCmd" -> "MaxErr"
      [] state = "kBCycleCountCmd" -> "CycleCount"
      [] state = "kBTemperatureCmd" -> "Temperature"
      [] state = "kBCurrentCmd" -> "RealCurrent"

\* The property a case stores a symbol under.
SymbolOf(state) ==
    CASE state = "kBManufactureNameCmd" -> "Manufacturer"
      [] state = "kBDeviceNameCmd" -> "DeviceName"
      [] state = "kBSerialNumberCmd" -> "Serial"

\* cases kBReadCellVoltage1Cmd .. kBReadCellVoltage4Cmd, up to the next read
StoreCellVoltage(o, state, t) ==
    LET my_unsigned_16 == IF StatusOK(t) THEN t.word.value ELSE 0
        c1 == IF state = "kBReadCellVoltage1Cmd"
                THEN [o EXCEPT !.fCellVoltages = [null |-> FALSE, values |-> <<>>]]
                ELSE o
        c2 == IF ~c1.fCellVoltages.null
                THEN [c1 EXCEPT !.fCellVoltages.values = Append(@, my_unsigned_16)]
                ELSE c1
    IN  IF state = "kBReadCellVoltage4Cmd"
          THEN IF ~c2.fCellVoltages.null
                 THEN [setProperty(c2, "CellVoltage", c2.fCellVoltages)
                         EXCEPT !.fCellVoltages = NullCellVoltages]
                 \* removeProperty(_CellVoltageSym): no list is published
                 ELSE setProperty(c2, "CellVoltage", NullCellVoltages)
          ELSE c2

\* What a case that decodes one field stores: the value read on status OK, the
\* default otherwise.
StoreField(o, state, t) ==
    CASE state \in {"kBManufactureNameCmd", "kBDeviceNameCmd", "kBSerialNumberCmd"} ->
            IF StatusOK(t) THEN setProperty(o, SymbolOf(state), "set")
                           ELSE removeProperty(o, SymbolOf(state))
      [] state = "kBAverageCurrentCmd" ->
            IF StatusOK(t)
              THEN setProperty([o EXCEPT !.fAvgCurrent = t.word.value],
                               "Amperage", t.word.value)
              ELSE setProperty(setProperty([o EXCEPT !.fAvgCurrent = 0], "Amperage", 0),
                               "TimeRemaining", 0)
      [] state = "kBAverageTimeToEmptyCmd" ->
            IF StatusOK(t)
              THEN LET c == setProperty(o, "AverageTimeToEmpty", t.word.value)
                   IN  IF o.fAvgCurrent < 0
                         THEN setProperty(c, "TimeRemaining", t.word.value) ELSE c
              ELSE setProperty(setProperty(o, "TimeRemaining", 0),
                               "AverageTimeToEmpty", 0)
      [] state = "kBAverageTimeToFullCmd" ->
            IF StatusOK(t)
              THEN LET c == setProperty(o, "AverageTimeToFull", t.word.value)
                   IN  IF o.fAvgCurrent > 0
                         THEN setProperty(c, "TimeRemaining", t.word.value) ELSE c
              ELSE setProperty(setProperty(o, "TimeRemaining", 0),
                               "AverageTimeToFull", 0)
      [] state \in CellVoltageCmds -> StoreCellVoltage(o, state, t)
      [] OTHER ->
            setProperty(o, PropertyOf(state), IF StatusOK(t) THEN t.word.value ELSE 0)

\* The cases that decode one field and issue the next read.
StateFieldCmd(o, state, t) ==
    IF NextCommand(state) \in BlockCmds
      THEN readBlockAsync(StoreField(o, state, t), "kSMBusBatteryAddr",
                          NextCommand(state))
      ELSE readWordAsync(StoreField(o, state, t), "kSMBusBatteryAddr",
                         NextCommand(state))

\* The initial-boot countdown is not looked at.
RearmPollTimer_NoCountdown(o) ==
    \/ ~o.fACConnected
    \/ (~o.fFullyCharged /\ o.fBatteryPresent)
    \/ o.fPollingOverridden

\* The re-arm test of the terminal state.
RearmPollTimer(o) ==
    \/ o.fInitialPollCountdown > 0
    \/ ~o.fACConnected
    \/ (~o.fFullyCharged /\ o.fBatteryPresent)
    \/ o.fPollingOverridden

\* The initial-boot countdown is not counted down.
StateBCurrentCmd_NoDecrement(o, t) ==
    LET c == updateStatus([StoreField(o, "kBCurrentCmd", t)
                             EXCEPT !.fBatteryReadAllTimer = 0,
                                    !.fPollingNow = FALSE], "final")
    IN  IF c.fPollingOverridden /\ c.fPollingInterval = 0
          THEN pollBatteryState(c, kNewBatteryPath)
        ELSE IF RearmPollTimer(c)
          THEN [c EXCEPT
                  !.fPollTimer = IF ~c.fPollingOverridden
                                   THEN c.milliSecPollingTable[c.fPollingInterval + 1]
                                   ELSE 1000 * c.fPollingInterval]
        ELSE c

\* case kBCurrentCmd
StateBCurrentCmd(o, t) ==
    LET c == updateStatus([StoreField(o, "kBCurrentCmd", t)
                             EXCEPT !.fBatteryReadAllTimer = 0,
                                    !.fPollingNow = FALSE], "final")
    IN  IF c.fPollingOverridden /\ c.fPollingInterval = 0
          THEN pollBatteryState(c, kNewBatteryPath)
        ELSE IF RearmPollTimer(c)
          THEN [c EXCEPT
                  !.fInitialPollCountdown = IF @ > 0 THEN @ - 1 ELSE @,
                  !.fPollTimer = IF ~c.fPollingOverridden
                                   THEN c.milliSecPollingTable[c.fPollingInterval + 1]
                                   ELSE 1000 * c.fPollingInterval]
        ELSE c

\* switch(next_state)
Dispatch(o, next_state, t) ==
    LET c == [o EXCEPT !.state = next_state]
    IN  CASE next_state = StartState -> State0(c)
          [] next_state = "kMStateContCmd" -> StateMStateContCmd(c, t)
          [] next_state = "kMStateCmd" -> StateMStateCmd(c, t)
          [] next_state = "kBBatteryStatusCmd" -> StateBBatteryStatusCmd(c, t)
          [] next_state = "kBRemainingCapacityCmd" -> StateBRemainingCapacityCmd(c, t)
          [] next_state = "kBFullChargeCapacityCmd" -> StateBFullChargeCapacityCmd(c, t)
          [] next_state = "kBCurrentCmd" -> StateBCurrentCmd(c, t)
          [] OTHER -> StateFieldCmd(c, next_state, t)

\* The restart flag is not looked at.
RestartRequested_NullOnly(o, t) == t.null

\* "if( NULL == transaction || fRebootPolling )"
RestartRequested(o, t) == t.null \/ o.fRebootPolling

\* "if( fCancelPolling ) ... if( transaction )"
CancelRequested(o, t) == o.fCancelPolling /\ ~t.null

transactionCompletion(o, ref, t) ==
    LET o1 == [o EXCEPT !.fCancelPolling = FALSE,
                        !.status = t.status, !.command = t.command,
                        !.zeroRead = (~t.null /\ StatusOK(t) /\ WordIsZero(t.word))]
    IN  IF CancelRequested(o, t)
          THEN [o1 EXCEPT !.fPollingNow = FALSE, !.cancelled = TRUE]
        ELSE IF RestartRequested(o1, t)
          THEN Dispatch([o1 EXCEPT !.fRebootPolling = FALSE,
                                   !.reboot = o1.fRebootPolling],
                        StartState, t)
        ELSE LET p == RetryPolicy(o1, t)
             IN  IF p.transaction_needs_retry
                   THEN RetryTransaction(p.o, t)
                   ELSE Dispatch(p.o, ref, t)

\* A request starts a sequence whether one is in flight or not.
pollBatteryState_AlwaysStarts(o, path) ==
    IF o.fStalledByUserClient
      THEN o
      ELSE transactionCompletion([o EXCEPT !.fMachinePath = path],
                                 StartState, NullTransaction)

pollBatteryState(o, path) ==
    IF o.fStalledByUserClient
      THEN o
    ELSE LET c == [o EXCEPT !.fMachinePath = path]
         IN  IF ~c.fPollingNow
               THEN transactionCompletion(c, StartState, NullTransaction)
               ELSE [c EXCEPT !.fRebootPolling = TRUE, !.flagged = TRUE]

(***************************************************************************)
(* The triggers                                                            *)
(***************************************************************************)
handleBatteryInserted(o) == pollBatteryState(o, kNewBatteryPath)

handleInflowDisabled(o, inflow_state) ==
    pollBatteryState([o EXCEPT !.fInflowDisabled = inflow_state], kExistingBatteryPath)

handleChargeInhibited(o, charge_state) ==
    pollBatteryState([o EXCEPT !.fChargeInhibited = charge_state], kExistingBatteryPath)

handleUCStalled(o, stall) ==
    IF stall
      THEN LET c == [o EXCEPT !.fStalledByUserClient = TRUE, !.fPollTimer = 0,
                              !.timerCancelled = (o.fPollTimer # 0)]
           IN  IF c.fPollingNow
                 THEN [c EXCEPT !.fCancelPolling = TRUE, !.fBatteryReadAllTimer = 0]
                 ELSE c
      ELSE pollBatteryState([o EXCEPT !.fStalledByUserClient = FALSE], kNewBatteryPath)

\* The override is not looked at.
setPollingInterval_Always(o, milliSeconds) ==
    [o EXCEPT !.milliSecPollingTable[kDefaultPollInterval + 1] = milliSeconds,
              !.fPollingInterval = kDefaultPollInterval]

setPollingInterval(o, milliSeconds) ==
    IF ~o.fPollingOverridden
      THEN [o EXCEPT !.milliSecPollingTable[kDefaultPollInterval + 1] = milliSeconds,
                     !.fPollingInterval = kDefaultPollInterval]
      ELSE o

\* The expiry asks for a poll whether or not one is in flight.
pollingTimeOut_Always(o) ==
    pollBatteryState(o, kExistingBatteryPath)

pollingTimeOut(o) ==
    IF ~o.fPollingNow THEN pollBatteryState(o, kExistingBatteryPath) ELSE o

\* The watchdog restarts without looking at its budget.
incompleteReadTimeOut_NoBudget(o) ==
    pollBatteryState([logReadError(o, "kErrorOverallTimeoutExpired")
                        EXCEPT !.fIncompleteReadRetries = IF @ > 0 THEN @ - 1 ELSE 0],
                     kNewBatteryPath)

incompleteReadTimeOut(o) ==
    LET c == logReadError(o, "kErrorOverallTimeoutExpired")
    IN  IF 0 < c.fIncompleteReadRetries
          THEN pollBatteryState([c EXCEPT !.fIncompleteReadRetries = @ - 1],
                                kNewBatteryPath)
          ELSE c

(***************************************************************************)
(* The state machine                                                       *)
(***************************************************************************)
MeFields ==
    {"fPollingNow", "fCancelPolling", "fRebootPolling", "fStalledByUserClient",
     "fMachinePath", "fRetryAttempts", "fIncompleteReadRetries",
     "fInitialPollCountdown", "fPollingInterval", "fPollingOverridden",
     "fFullyDischarged", "fFullyCharged", "fBatteryPresent", "fACConnected",
     "fInflowDisabled", "fChargeInhibited", "fRemainingCapacity",
     "fFullChargeCapacity", "fTransaction", "fPollTimer", "fBatteryReadAllTimer",
     "milliSecPollingTable", "fAvgCurrent", "fCellVoltages"}

\* The values of the "BatteryPollingPeriodOverride" property, in seconds.
DebugPollingSettings == {0, 2}

\* AppleSmartBattery::start, up to the call of pollBatteryState.
StartFields(overridden, debugPollingSetting) ==
    [fPollingNow |-> FALSE, fCancelPolling |-> FALSE, fRebootPolling |-> FALSE,
     fStalledByUserClient |-> FALSE, fMachinePath |-> kNewBatteryPath,
     fRetryAttempts |-> 0, fIncompleteReadRetries |-> kIncompleteReadRetryMax,
     fInitialPollCountdown |-> kInitialPollCountdown,
     fPollingInterval |-> IF overridden THEN debugPollingSetting
                                        ELSE kDefaultPollInterval,
     fPollingOverridden |-> overridden,
     fFullyDischarged |-> FALSE, fFullyCharged |-> FALSE,
     fBatteryPresent |-> FALSE, fACConnected |-> FALSE,
     fInflowDisabled |-> FALSE, fChargeInhibited |-> FALSE,
     fRemainingCapacity |-> 0, fFullChargeCapacity |-> 0,
     fTransaction |-> [protocol |-> "none", address |-> "none", command |-> "none"],
     fPollTimer |-> 0, fBatteryReadAllTimer |-> 0,
     milliSecPollingTable |-> milliSecPollingTable,
     fAvgCurrent |-> 0, fCellVoltages |-> NullCellVoltages]

\* start(): clearBatteryState(false), then pollBatteryState(kNewBatteryPath).
start(overridden, debugPollingSetting) ==
    pollBatteryState(
        clearBatteryState(StartFields(overridden, debugPollingSetting)
                          @@ [smbus |-> <<>>] @@ EvReset("start"), FALSE),
        kNewBatteryPath)

\* The object record a handler runs on.
Enter(op) == me @@ [smbus |-> smbus] @@ EvReset(op)

StatusClass(status) ==
    IF status = "kIOSMBusStatusOK" THEN "Ok"
    ELSE IF status \in RetryStatuses THEN "Retryable"
    ELSE IF status \in NonRecoverableStatuses THEN "NonRecoverable"
    ELSE "none"

\* The handler's result becomes the next state.
Install(r) ==
    /\ Len(r.smbus) <= MaxOutstanding
    /\ me' = [f \in MeFields |-> r[f]]
    /\ smbus' = r.smbus
    /\ ev' = [[f \in EvFields |-> r[f]] EXCEPT !.status = StatusClass(r.status)]

\* A state-0 read issued on the NewBattery path.
StartedNew(r) ==
    /\ r.state = StartState
    /\ r.issued = <<"kMStateContCmd">>
    /\ r.fMachinePath = kNewBatteryPath

Started(r) == r.state = StartState /\ r.issued = <<"kMStateContCmd">>

HistInit ==
    [reissued |-> 0, runCmd |-> "none", runStatus |-> "none",
     restartBy |-> "none", insertPending |-> FALSE, unstallPending |-> FALSE,
     removed |-> FALSE, hungPending |-> FALSE, lost |-> FALSE,
     stallRestarts |-> 0, seqFull |-> 0, removedInFlight |-> FALSE,
     pendingRequests |-> 0, servedRequests |-> 0]

Published(r) == {r.published[k] : k \in DOMAIN r.published}

\* The history after a handler run by trigger `who` with result r.
HistNext(who, r) ==
    [hist EXCEPT
       !.restartBy = IF r.flagged THEN who
                     ELSE IF r.fRebootPolling THEN @ ELSE "none",
       !.insertPending =
           IF StartedNew(r) THEN FALSE
           ELSE IF who = "inserted" THEN ~me.fStalledByUserClient
           ELSE IF who \in {"removed", "stall", "inflow", "inhibit"} THEN FALSE
           ELSE @,
       !.unstallPending =
           IF StartedNew(r) THEN FALSE
           ELSE IF who = "unstall" THEN me.fStalledByUserClient
           ELSE IF who \in {"removed", "stall", "inflow", "inhibit"} THEN FALSE
           ELSE @,
       !.removed = IF who = "removed" THEN TRUE
                   ELSE IF who = "inserted" THEN FALSE ELSE @,
       !.lost = @ \/ who = "dropped",
       \* restart requests flagged since the last completion (2 stands for two
       \* or more), and how many of them the last completion found
       !.pendingRequests =
           IF who = "complete" THEN 0
           ELSE IF r.flagged THEN (IF @ < 2 THEN @ + 1 ELSE 2)
           ELSE @,
       !.servedRequests =
           IF who = "complete" THEN (IF r.reboot THEN hist.pendingRequests ELSE 0)
           ELSE @,
       \* the battery was removed while every transaction now outstanding was
       \* outstanding
       !.removedInFlight =
           IF who = "removed" THEN smbus # <<>>
           ELSE IF r.issued # <<>> \/ r.smbus = <<>> THEN FALSE
           ELSE @,
       \* the full-charge capacity the running sequence has read: 0 before the
       \* read and when the read failed
       !.seqFull =
           IF r.state = StartState THEN 0
           ELSE IF r.state = "kBFullChargeCapacityCmd"
             THEN (IF r.status = "kIOSMBusStatusOK" THEN r.fFullChargeCapacity ELSE 0)
           ELSE @,
       \* watchdog firings that asked for a restart since the last sequence
       \* that reached its end
       !.stallRestarts =
           IF "final" \in Published(r) THEN 0
           ELSE IF who = "watchdog" /\ (r.flagged \/ r.issued # <<>>) THEN @ + 1
           ELSE @,
       !.hungPending =
           IF Started(r) \/ "cleared" \in Published(r)
             THEN FALSE
           ELSE IF who = "watchdog"
             THEN (0 < me.fIncompleteReadRetries /\ me.fPollingNow /\ smbus = <<>>)
           ELSE @]

\* The retry series after a completion with result r of transaction t.
RunNext(h, r, t) ==
    IF ~r.retried
      THEN [h EXCEPT !.reissued = 0, !.runCmd = "none", !.runStatus = "none"]
    ELSE IF h.runCmd = t.command
      THEN [h EXCEPT !.reissued = @ + 1,
                     !.runStatus = IF @ = t.status THEN @ ELSE "mixed"]
    ELSE [h EXCEPT !.reissued = 1, !.runCmd = t.command, !.runStatus = t.status]

\* The environment of a run: how many external events, watchdog firings,
\* poll-timer firings and failed transactions it may still deliver, the statuses
\* the transport fails transactions with, the commands whose transactions it
\* may fail (all of them unless a specification narrows them) and the traits
\* of the device.
Environment(events, watchdog, polls, faults, statuses, traits) ==
    [events |-> events, watchdog |-> watchdog, polls |-> polls,
     faults |-> faults, statuses |-> statuses, traits |-> traits,
     faulty |-> Commands]

InitWith(overrides, environment) ==
    \E overridden \in overrides :
    \E debugPollingSetting \in DebugPollingSettings :
        LET r == start(overridden, debugPollingSetting)
        IN  /\ overridden \/ debugPollingSetting = 0
            /\ me = [f \in MeFields |-> r[f]]
            /\ smbus = r.smbus
            /\ ev = [f \in EvFields |-> r[f]]
            /\ hist = HistInit
            /\ env = environment

\* A device with a battery that may be absent, a transport that may fail once.
Init ==
    InitWith({FALSE},
             Environment(MaxExternalEvents, MaxWatchdogFirings, MaxPollFirings,
                         MaxFaults, Statuses, {"batteryAbsent"}))

\* The transaction as the completion sees it: the request the provider took, or
\* the single buffer fTransaction if a later request has overwritten it.
CompletedTransactions(q) ==
    UNION {
      {[null |-> FALSE, address |-> b.address, command |-> b.command,
        protocol |-> b.protocol, status |-> st, word |-> w] :
          b \in {[protocol |-> q.protocol, address |-> q.address,
                  command |-> q.command],
                 me.fTransaction},
          w \in IF st = "kIOSMBusStatusOK"
                  THEN ReceiveWords(q.command, env.traits)
                  ELSE {Word({}, 0)}} :
      st \in {"kIOSMBusStatusOK"}
               \cup (IF env.faults > 0 /\ q.command \in env.faulty
                       THEN env.statuses ELSE {})}

Remove(q, i) == SubSeq(q, 1, i - 1) \o SubSeq(q, i + 1, Len(q))

\* The provider completes an outstanding transaction.
TransactionComplete ==
    \E i \in DOMAIN smbus :
    \E t \in CompletedTransactions(smbus[i]) :
        /\ LET r == transactionCompletion(
                        [Enter("complete") EXCEPT !.smbus = Remove(smbus, i)],
                        smbus[i].ref, t)
           IN  /\ r.retried => hist.reissued < MaxReissue
               /\ Install(r)
               /\ hist' = RunNext(HistNext("complete", r), r, t)
               /\ env' = IF t.status = "kIOSMBusStatusOK" THEN env
                         ELSE [env EXCEPT !.faults = @ - 1]

\* The transport loses an outstanding transaction: no completion is delivered.
TransactionDropped ==
    \E i \in DOMAIN smbus :
        /\ env.events > 0
        /\ LET r == [Enter("dropped") EXCEPT !.smbus = Remove(smbus, i)]
           IN  /\ Install(r)
               /\ hist' = HistNext("dropped", r)
               /\ env' = [env EXCEPT !.events = @ - 1]

PollTimerFires ==
    /\ me.fPollTimer # 0
    /\ env.polls > 0
    /\ LET r == pollingTimeOut([Enter("pollTimer") EXCEPT !.fPollTimer = 0])
       IN  /\ Install(r)
           /\ hist' = HistNext("pollTimer", r)
           /\ env' = [env EXCEPT !.polls = @ - 1]

\* The poll timer expired while the handler that has just cancelled it held the
\* work loop: the expiry was already on its way and runs next.
LatePollTimerFires ==
    /\ ev.timerCancelled
    /\ env.polls > 0
    /\ LET r == pollingTimeOut(Enter("pollTimer"))
       IN  /\ Install(r)
           /\ hist' = HistNext("pollTimer", r)
           /\ env' = [env EXCEPT !.polls = @ - 1]

WatchdogFires ==
    /\ me.fBatteryReadAllTimer # 0
    /\ env.watchdog > 0
    /\ LET r == incompleteReadTimeOut(
                    [Enter("watchdog") EXCEPT !.fBatteryReadAllTimer = 0])
       IN  /\ Install(r)
           /\ hist' = HistNext("watchdog", r)
           /\ env' = [env EXCEPT !.watchdog = @ - 1]

\* An external trigger, marshalled onto the work loop.
External(who, r) ==
    /\ env.events > 0
    /\ Install(r)
    /\ hist' = HistNext(who, r)
    /\ env' = [env EXCEPT !.events = @ - 1]

BatteryInserted == External("inserted", handleBatteryInserted(Enter("inserted")))

BatteryRemoved == External("removed", handleBatteryRemoved(Enter("removed")))

InflowDisabled ==
    \E inflow_state \in BOOLEAN :
        External("inflow", handleInflowDisabled(Enter("inflow"), inflow_state))

ChargeInhibited ==
    \E charge_state \in BOOLEAN :
        External("inhibit", handleChargeInhibited(Enter("inhibit"), charge_state))

UCStalled ==
    \E stall \in BOOLEAN :
        External(IF stall THEN "stall" ELSE "unstall",
                 handleUCStalled(Enter(IF stall THEN "stall" ELSE "unstall"), stall))

\* The periods, in milliseconds, the manager may ask for.
PollingIntervals == {5000}

SetPollingInterval ==
    \E milliSeconds \in PollingIntervals :
        External("setInterval", setPollingInterval(Enter("setInterval"), milliSeconds))

Next ==
    \/ TransactionComplete
    \/ TransactionDropped
    \/ PollTimerFires
    \/ WatchdogFires
    \/ BatteryInserted
    \/ BatteryRemoved
    \/ InflowDisabled
    \/ ChargeInhibited
    \/ UCStalled
    \/ SetPollingInterval

Spec == Init /\ [][Next]_vars

(***************************************************************************)
(* The retry policy: one sequence of a device whose reads fail or return   *)
(* zero, with the watchdog and the removal of the battery.                 *)
(***************************************************************************)
\* One status of each retryable kind the transport reports, and one that is
\* not recoverable.
RetryFaultStatuses ==
    {"kIOSMBusStatusOK", "kIOSMBusStatusTimeout", "kIOSMBusStatusBusy",
     "kIOSMBusStatusPECError"}

\* The commands the transport of the retry specification may fail: the
\* manager reads, the first identity read and the capacity reads.
RetryFaultCommands ==
    ManagerCmds \cup {"kBManufactureNameCmd", "kBDesignCapacityCmd",
                      "kBRemainingCapacityCmd", "kBFullChargeCapacityCmd"}

InitRetry ==
    InitWith({FALSE},
             [Environment(MaxEventsUnderFailure, MaxWatchdogFirings, 0,
                          MaxRetryFaults, RetryFaultStatuses,
                          {"permanentFailure", "zeroCapacity", "fullyDischarged"})
                EXCEPT !.faulty = RetryFaultCommands])

NextRetry ==
    \/ TransactionComplete
    \/ WatchdogFires
    \/ BatteryRemoved

SpecRetry == InitRetry /\ [][NextRetry]_vars

(***************************************************************************)
(* A battery that reports a permanent failure, on a transport that does    *)
(* not fail.                                                               *)
(***************************************************************************)
InitFailure ==
    InitWith({FALSE},
             Environment(MaxEventsUnderFailure, MaxWatchdogFirings, MaxPollFirings,
                         0, {}, {"permanentFailure"}))

SpecFailure == InitFailure /\ [][Next]_vars

(***************************************************************************)
(* Publication: a battery that may be absent or report a permanent         *)
(* failure, inserted and removed, on a transport that does not fail.       *)
(***************************************************************************)
InitPublish ==
    InitWith({FALSE},
             Environment(MaxEventsUnderFailure, 0, 0, 0, {},
                         {"batteryAbsent", "permanentFailure"}))

NextPublish ==
    \/ TransactionComplete
    \/ BatteryInserted
    \/ BatteryRemoved

SpecPublish == InitPublish /\ [][NextPublish]_vars

(***************************************************************************)
(* Inflow and charge control: a battery that may be charging, on a         *)
(* transport that may fail, with inflow-disable and charge-inhibit         *)
(* requests.                                                               *)
(***************************************************************************)
InitFlags ==
    InitWith({FALSE},
             Environment(MaxExternalEvents, 0, 0, MaxFaults, RetryFaultStatuses,
                         {"charging", "acAbsent"}))

NextFlags ==
    \/ TransactionComplete
    \/ InflowDisabled
    \/ ChargeInhibited

SpecFlags == InitFlags /\ [][NextFlags]_vars

(***************************************************************************)
(* Restart requests: a healthy device on a transport that may fail the     *)
(* manager reads, the triggers that ask for a poll and the ones that       *)
(* cancel it.                                                              *)
(***************************************************************************)
InitRestart ==
    InitWith({FALSE},
             [Environment(MaxRestartEvents, MaxWatchdogFirings, 0,
                          MaxFaults, RetryFaultStatuses, {})
                EXCEPT !.faulty = ManagerCmds])

NextRestart ==
    \/ TransactionComplete
    \/ WatchdogFires
    \/ BatteryInserted
    \/ BatteryRemoved
    \/ InflowDisabled
    \/ ChargeInhibited
    \/ UCStalled

SpecRestart == InitRestart /\ [][NextRestart]_vars

(***************************************************************************)
(* The poll timer: a healthy device on battery power, whose timer stays    *)
(* armed after a sequence, and the triggers that start a sequence or stall *)
(* the driver while it is armed. cancelTimeout() does not call back an     *)
(* expiry that is already waiting for the work loop, so the timer may      *)
(* expire right after the handler that cancelled it.                       *)
(***************************************************************************)
InitPoll ==
    InitWith({FALSE},
             Environment(MaxExternalEvents, 0, MaxPollFirings, 0, {}, {"acAbsent"}))

NextPoll ==
    \/ TransactionComplete
    \/ PollTimerFires
    \/ LatePollTimerFires
    \/ InflowDisabled
    \/ UCStalled

SpecPoll == InitPoll /\ [][NextPoll]_vars

(***************************************************************************)
(* The retry counter: the manager reads of a healthy device fail again and *)
(* again, and the sequence is restarted, cancelled or cleared in between.  *)
(***************************************************************************)
InitCounter ==
    InitWith({FALSE},
             [Environment(MaxRestartEvents, 0, 0, MaxRetryFaults,
                          RetryFaultStatuses, {})
                EXCEPT !.faulty = ManagerCmds])

NextCounter ==
    \/ TransactionComplete
    \/ BatteryInserted
    \/ BatteryRemoved
    \/ InflowDisabled
    \/ UCStalled

SpecCounter == InitCounter /\ [][NextCounter]_vars

(***************************************************************************)
(* Full discharge: sequence after sequence of a battery that may report    *)
(* itself fully discharged, whose status read may fail, and that may be    *)
(* removed and inserted again.                                             *)
(***************************************************************************)
InitDischarge ==
    InitWith({FALSE},
             [Environment(MaxExternalEvents, 0, MaxPollFirings, MaxFaults,
                          RetryFaultStatuses, {"fullyDischarged"})
                EXCEPT !.faulty = {"kBBatteryStatusCmd"}])

NextDischarge ==
    \/ TransactionComplete
    \/ PollTimerFires
    \/ BatteryInserted
    \/ BatteryRemoved

SpecDischarge == InitDischarge /\ [][NextDischarge]_vars

(***************************************************************************)
(* The watchdog: a device whose battery may be absent, so that the         *)
(* watchdog stays armed after a sequence, on a transport that may fail,    *)
(* and no other trigger.                                                   *)
(***************************************************************************)
InitWatchdog ==
    InitWith({FALSE},
             Environment(0, MaxStallFirings, 0, MaxFaults, RetryFaultStatuses,
                         {"batteryAbsent"}))

NextWatchdog ==
    \/ TransactionComplete
    \/ WatchdogFires

SpecWatchdog == InitWatchdog /\ [][NextWatchdog]_vars

(***************************************************************************)
(* Capacities and the poll interval: sequences of a device that may read   *)
(* zero or low capacities, be on battery, fully charged or discharged, on  *)
(* a transport that may fail, the poll timer starting the next sequence.   *)
(***************************************************************************)
InitCapacity ==
    InitWith({FALSE},
             Environment(0, 0, MaxPollFirings, MaxFaults, RetryFaultStatuses,
                         {"zeroCapacity", "lowCapacity", "fullyDischarged",
                          "fullyCharged", "acAbsent"}))

NextCapacity ==
    \/ TransactionComplete
    \/ PollTimerFires

SpecCapacity == InitCapacity /\ [][NextCapacity]_vars

(***************************************************************************)
(* The debug override: "BatteryPollingPeriodOverride" is set, to 0 or to a *)
(* period in seconds.                                                      *)
(***************************************************************************)
InitOverride ==
    InitWith({TRUE},
             Environment(MaxRestartEvents, 0, MaxPollFirings, MaxFaults,
                         RetryFaultStatuses,
                         {"lowCapacity", "fullyCharged", "acAbsent"}))

NextOverride ==
    \/ TransactionComplete
    \/ PollTimerFires
    \/ SetPollingInterval

SpecOverride == InitOverride /\ [][NextOverride]_vars

(***************************************************************************)
(* The initial-boot countdown: sequence after sequence of a device that    *)
(* may be fully charged and on AC, with or without the debug override.     *)
(***************************************************************************)
InitCountdown ==
    InitWith(BOOLEAN,
             Environment(0, 0, MaxCountdownPolls, 0, {},
                         {"fullyCharged", "acAbsent"}))

SpecCountdown == InitCountdown /\ [][NextCapacity]_vars

(***************************************************************************)
(* The retry policy                                                        *)
(***************************************************************************)
\* C1: a zero-checked capacity command that is answered with status OK and the
\* value zero on every read is re-read at most kRetryAttempts times; then the
\* zero is accepted and the sequence advances.
C1_ZeroCapacityRetryBudget ==
    hist.runStatus = "kIOSMBusStatusOK" => hist.reissued <= kRetryAttempts

\* C2: a command whose transaction keeps completing with one retryable status
\* is re-issued at most kRetryAttempts consecutive times.
C2_RetryableRetryBudget ==
    hist.runStatus \in RetryStatuses => hist.reissued <= kRetryAttempts

(***************************************************************************)
(* Permanent failure and the single outstanding transaction                *)
(***************************************************************************)
\* C3: the completion that finds both terminate alarms in the battery status
\* publishes the battery-absent snapshot and issues no next transaction.
C3_PermanentFailureStops ==
    ev.permFail => (ev.issued = <<>> /\ "cleared" \in Published(ev))

\* C4: at most one bus transaction is outstanding in every reachable state.
C4_OneOutstanding == Len(smbus) <= 1

(***************************************************************************)
(* Restart, insertion, removal, stall                                      *)
(***************************************************************************)
\* The path a trigger asks pollBatteryState for.
PathOf(who) ==
    IF who \in {"inflow", "inhibit", "pollTimer"}
      THEN kExistingBatteryPath
      ELSE kNewBatteryPath

\* C5 as stated: when a restart was requested while a sequence is in flight,
\* the completion of the in-flight transaction processes state 0 and the
\* restarted sequence runs on the NewBattery path, whichever trigger asked.
C5_RestartIsNewBattery ==
    [][(ev'.op = "complete" /\ me.fRebootPolling)
         => (ev'.state = StartState /\ me'.fMachinePath = kNewBatteryPath)]_vars

\* C5 amended: when a restart was requested while a sequence is in flight and
\* no cancellation is pending when the in-flight transaction completes, that
\* completion processes state 0 (it issues the kMStateContCmd read) whatever
\* the transaction's status and state token, and the restarted sequence runs
\* on the path of the trigger that asked last.
C5_RestartFollowsRequest ==
    [][(ev'.op = "complete" /\ me.fRebootPolling /\ ~me.fCancelPolling)
         => (/\ ev'.state = StartState
             /\ ev'.issued = <<"kMStateContCmd">>
             /\ ~me'.fRebootPolling
             /\ me'.fMachinePath = PathOf(hist.restartBy))]_vars

\* A failed transaction restarts the sequence on the ExistingBattery path.
C5_RestartedOnExistingPath ==
    /\ ev.op = "complete"
    /\ ev.reboot
    /\ ev.status = "Retryable"
    /\ ev.state = StartState
    /\ ev.issued = <<"kMStateContCmd">>
    /\ me.fMachinePath = kExistingBatteryPath

\* C6: after a battery-inserted event delivered while no stall is active, a
\* NewBattery sequence starts at state 0 once the outstanding transactions
\* have completed: while the insertion is not served and no transaction was
\* lost, a transaction is outstanding or a timer is armed.
C6_InsertedIsServed ==
    (hist.insertPending /\ ~hist.lost)
        => (smbus # <<>> \/ me.fPollTimer # 0 \/ me.fBatteryReadAllTimer # 0)

\* C7: after a battery-removed event and until a battery-inserted event,
\* neither the poll timer nor the watchdog issues a read.
C7_NoSequenceAfterRemoval ==
    (hist.removed /\ ev.op \in {"pollTimer", "watchdog"}) => ev.issued = <<>>

\* C8: while an external stall is active no step issues a bus transaction.
C8_NoIssueWhileStalled == me.fStalledByUserClient => ev.issued = <<>>

\* C9: after an external stall is cleared, a NewBattery sequence starts at
\* state 0 once the outstanding transactions have completed: while the
\* request is not served and no transaction was lost, a transaction is
\* outstanding or a timer is armed.
C9_UnstallIsServed ==
    (hist.unstallPending /\ ~hist.lost)
        => (smbus # <<>> \/ me.fPollTimer # 0 \/ me.fBatteryReadAllTimer # 0)

\* C10: when a completion is never delivered and the watchdog has fired with
\* stall-restart budget left, a state-0 read is issued or the battery-absent
\* snapshot is published: until then a timer is armed or a transaction is
\* outstanding.
C10_WatchdogRecovers ==
    hist.hungPending
        => (smbus # <<>> \/ me.fPollTimer # 0 \/ me.fBatteryReadAllTimer # 0)

(***************************************************************************)
(* The stall-restart budget of the watchdog                                *)
(***************************************************************************)
\* C11: at most kIncompleteReadRetryMax consecutive watchdog firings ask for a
\* restart; the firing after them neither starts a sequence nor sets the
\* restart flag.
C11_StallRestartBudget == hist.stallRestarts <= kIncompleteReadRetryMax

\* The eleventh firing has asked for nothing.
C11_EleventhFiringIgnored ==
    /\ ev.op = "watchdog"
    /\ hist.stallRestarts = kIncompleteReadRetryMax
    /\ ev.issued = <<>>
    /\ ~ev.flagged
    /\ ~me.fRebootPolling

\* C12: a sequence that reaches its end (the kBCurrentCmd state) leaves the
\* stall-restart budget at its full value kIncompleteReadRetryMax.
C12_SequenceResetsBudget ==
    "final" \in Published(ev) => me.fIncompleteReadRetries = kIncompleteReadRetryMax

(***************************************************************************)
(* Zero capacities                                                         *)
(***************************************************************************)
\* C13: a completion with status OK and the value zero is answered by a retry
\* exactly when the command is kBFullChargeCapacityCmd, kBDesignCapacityCmd, or
\* kBRemainingCapacityCmd while fFullyDischarged is false; a zero
\* kBRemainingCapacityCmd while fFullyDischarged is true is accepted at once.
C13_ZeroReadRetried ==
    (ev.op = "complete" /\ ev.zeroRead /\ ~ev.cancelled /\ ~ev.reboot)
        => (ev.retried <=>
              \/ ev.command \in {"kBFullChargeCapacityCmd", "kBDesignCapacityCmd"}
              \/ (ev.command = "kBRemainingCapacityCmd" /\ ~me.fFullyDischarged))

\* A zero remaining capacity of a fully discharged battery is accepted on its
\* first completion: the sequence goes on to the full-charge capacity.
C13_ZeroAcceptedWhenDischarged ==
    /\ ev.op = "complete"
    /\ ev.zeroRead
    /\ ev.command = "kBRemainingCapacityCmd"
    /\ me.fFullyDischarged
    /\ ~ev.retried
    /\ hist.reissued = 0
    /\ ev.state = "kBRemainingCapacityCmd"
    /\ ev.issued = <<"kBFullChargeCapacityCmd">>

(***************************************************************************)
(* The poll interval                                                       *)
(***************************************************************************)
\* The sequence has read a remaining capacity below 5% of the full-charge
\* capacity it has read, with AC connected.
SequenceBelowFivePercent ==
    /\ hist.seqFull # 0
    /\ (100 * me.fRemainingCapacity) \div hist.seqFull < 5
    /\ me.fACConnected

\* C14: with no debug override, the poll timer armed at the end of a sequence
\* runs for the quick interval when that sequence read a capacity below 5%
\* with AC connected, and for the default interval in every other case.
C14_IntervalOfThisSequence ==
    ("final" \in Published(ev) /\ ~me.fPollingOverridden /\ me.fPollTimer # 0)
        => me.fPollTimer =
               IF SequenceBelowFivePercent
                 THEN me.milliSecPollingTable[kQuickPollInterval + 1]
                 ELSE me.milliSecPollingTable[kDefaultPollInterval + 1]

\* C15: a debug override supersedes the interval selection.  With a non-zero
\* override the end of a sequence arms the poll timer with the override value,
\* in seconds, whatever the capacities, AC and the fully-charged flag; with an
\* override of zero the end of a sequence starts the next sequence at once and
\* arms no poll timer; the override value never changes and setPollingInterval
\* changes nothing while the override is active.
C15_OverrideSupersedes ==
    [][me.fPollingOverridden
         => /\ me'.fPollingOverridden
            /\ me'.fPollingInterval = me.fPollingInterval
            /\ me'.milliSecPollingTable = me.milliSecPollingTable
            /\ ev'.op = "setInterval" => me' = me
            /\ ("final" \in Published(ev') /\ me.fPollingInterval # 0)
                 => (ev'.issued = <<>> /\ me'.fPollTimer = 1000 * me.fPollingInterval)
            /\ ("final" \in Published(ev') /\ me.fPollingInterval = 0)
                 => (/\ ev'.issued = <<"kMStateContCmd">>
                     /\ me'.fPollingNow
                     /\ me'.fPollTimer = 0)]_vars

\* A fully charged battery on AC, read below 5%: the timer runs for the
\* override's two seconds.
C15_OverrideArmed ==
    /\ "final" \in Published(ev)
    /\ me.fPollingOverridden
    /\ me.fPollingInterval = 2
    /\ me.fPollTimer = 2000
    /\ me.fFullyCharged
    /\ SequenceBelowFivePercent
    /\ ev.issued = <<>>

\* C16 as stated: at the end of a sequence the poll timer is left unarmed
\* exactly when AC is connected, the battery is fully charged, the initial-boot
\* countdown is exhausted and no debug override is active.
C16_UnarmedExactlyWhenIdle ==
    [][("final" \in Published(ev'))
         => (me'.fPollTimer = 0 <=>
               /\ me'.fACConnected
               /\ me'.fFullyCharged
               /\ me.fInitialPollCountdown = 0
               /\ ~me.fPollingOverridden)]_vars

\* C16 amended: at the end of a sequence, unless a debug override of zero starts
\* the next sequence at once, the poll timer is left unarmed exactly when AC is
\* connected, the initial-boot countdown is exhausted, no debug override is
\* active, and the battery is fully charged or not marked present.
C16_UnarmedExactlyWhenIdleOrAbsent ==
    [][("final" \in Published(ev')
          /\ ~(me.fPollingOverridden /\ me.fPollingInterval = 0))
         => (me'.fPollTimer = 0 <=>
               /\ me'.fACConnected
               /\ me'.fFullyCharged \/ ~me'.fBatteryPresent
               /\ me.fInitialPollCountdown = 0
               /\ ~me.fPollingOverridden)]_vars

\* The sixth sequence of a fully charged battery on AC ends with no timer.
C16_LeftUnarmed ==
    /\ "final" \in Published(ev)
    /\ ev.issued = <<>>
    /\ me.fPollTimer = 0
    /\ me.fACConnected
    /\ me.fFullyCharged
    /\ me.fInitialPollCountdown = 0
    /\ ~me.fPollingOverridden

C18_RemovalCancelsCompletion ==
    [][(hist.removedInFlight /\ ev'.op = "complete")
          => /\ ev'.issued = <<>>
             /\ ~ev'.retried
             /\ ev'.state = "none"
             /\ ev'.published = <<>>
             /\ ~me'.fPollingNow]_vars

\* C19: a completion that results in a retry re-issues the command of the
\* failed transaction to the same address with the same state token, decodes
\* nothing, publishes nothing and changes no field of the object but the retry
\* counter and the transaction buffer.
C19_RetryKeepsSequenceState ==
    [][(ev'.op = "complete" /\ ev'.retried)
          => /\ \E i \in DOMAIN smbus :
                  LET n == smbus'[Len(smbus')]
                  IN  /\ smbus' = Append(Remove(smbus, i), n)
                      /\ n.address = smbus[i].address
                      /\ n.command = smbus[i].command
                      /\ n.ref = smbus[i].ref
             /\ ev'.issued = <<smbus'[Len(smbus')].command>>
             /\ ev'.state = "none"
             /\ ev'.published = <<>>
             /\ me' = [me EXCEPT !.fRetryAttempts = me'.fRetryAttempts,
                                 !.fTransaction = me'.fTransaction]]_vars

\* C20: the delay before a retry is the entry of microSecDelayTable indexed by
\* the number of consecutive retries already made for that command: 10
\* microseconds before the first retry, 250 milliseconds before the fifth.
C20_DelayFollowsRetryCount ==
    (ev.op = "complete" /\ ev.retried)
        => /\ hist.reissued \in DOMAIN microSecDelayTable
           /\ ev.delay = microSecDelayTable[hist.reissued]

(***************************************************************************)
(* Decode, defaults and order of the sequence                              *)
(***************************************************************************)
\* The commands of a sequence on a path, in the order the cases issue them.
IdentityOrder ==
    <<"kBManufactureNameCmd", "kBManufactureDateCmd", "kBDeviceNameCmd",
      "kBSerialNumberCmd", "kBDesignCapacityCmd">>

SequenceOrder(path) ==
    <<"kMStateContCmd", "kMStateCmd", "kBBatteryStatusCmd">>
    \o (IF path = kNewBatteryPath THEN IdentityOrder ELSE <<>>)
    \o <<"kBRemainingCapacityCmd", "kBFullChargeCapacityCmd", "kBAverageCurrentCmd",
         "kBVoltageCmd", "kBMaxErrorCmd", "kBCycleCountCmd",
         "kBAverageTimeToEmptyCmd", "kBAverageTimeToFullCmd", "kBTemperatureCmd",
         "kBReadCellVoltage1Cmd", "kBReadCellVoltage2Cmd", "kBReadCellVoltage3Cmd",
         "kBReadCellVoltage4Cmd", "kBCurrentCmd">>

\* The command that follows cmd on a path (cmd is not the last one).
Successor(cmd, path) ==
    LET order == SequenceOrder(path)
        k == CHOOSE i \in DOMAIN order : order[i] = cmd
    IN  order[k + 1]

\* The last handler stored value under key.
Stored(key, value) == key \in DOMAIN ev.stored /\ ev.stored[key] = value

\* The last handler left the field of the state it ran at its default: a flag
\* false, a number 0, a symbol removed.
DefaultStored ==
    CASE ev.state = "kMStateContCmd" -> ~me.fACConnected
      [] ev.state = "kMStateCmd" ->
            /\ ~me.fBatteryPresent
            /\ Stored("BatteryInstalled", FALSE)
            /\ Stored("IsCharging", FALSE)
      [] ev.state = "kBBatteryStatusCmd" ->
            /\ ~me.fFullyCharged
            /\ ~me.fFullyDischarged
            /\ Stored("FullyCharged", FALSE)
      [] ev.state \in {"kBManufactureNameCmd", "kBDeviceNameCmd", "kBSerialNumberCmd"} ->
            Stored(SymbolOf(ev.state), "removed")
      [] ev.state = "kBRemainingCapacityCmd" -> Stored("CurrentCapacity", 0)
      [] ev.state = "kBFullChargeCapacityCmd" -> Stored("MaxCapacity", 0)
      [] ev.state = "kBAverageCurrentCmd" -> Stored("Amperage", 0)
      [] ev.state = "kBAverageTimeToEmptyCmd" -> Stored("AverageTimeToEmpty", 0)
      [] ev.state = "kBAverageTimeToFullCmd" -> Stored("AverageTimeToFull", 0)
      [] ev.state \in CellVoltageCmds \ {"kBReadCellVoltage4Cmd"} ->
            /\ me.fCellVoltages.values # <<>>
            /\ me.fCellVoltages.values[Len(me.fCellVoltages.values)] = 0
      [] ev.state = "kBReadCellVoltage4Cmd" ->
            /\ "CellVoltage" \in DOMAIN ev.stored
            /\ ev.stored["CellVoltage"].values # <<>>
            /\ ev.stored["CellVoltage"].values[Len(ev.stored["CellVoltage"].values)] = 0
      [] OTHER -> Stored(PropertyOf(ev.state), 0)

\* A completion with a status that is not recoverable, not pre-empted by a
\* cancellation or a restart request.
NonRecoverableCompletion ==
    /\ ev.op = "complete"
    /\ ev.status = "NonRecoverable"
    /\ ~ev.cancelled
    /\ ~ev.reboot

C22_FailedCapacityIsZero ==
    (ev.op = "complete" /\ ev.status \in {"Retryable", "NonRecoverable"})
        => /\ ev.state = "kBRemainingCapacityCmd"
                => (me.fRemainingCapacity = 0 /\ Stored("CurrentCapacity", 0))
           /\ ev.state = "kBFullChargeCapacityCmd"
                => (me.fFullChargeCapacity = 0 /\ Stored("MaxCapacity", 0))

C24_FixedOrder ==
    /\ (ev.state = StartState /\ ev.issued # <<>>) => ev.issued = <<"kMStateContCmd">>
    /\ (ev.op = "complete" /\ ev.status = "Ok" /\ ~ev.retried /\ me.fBatteryPresent
          /\ ev.state \in Commands \ {"kBCurrentCmd"})
         => ev.issued = <<Successor(ev.state, me.fMachinePath)>>
    /\ (ev.op = "complete" /\ ev.state = "kBCurrentCmd") => ev.issued = <<>>

\* On the ExistingBattery path the battery-status state issues the
\* remaining-capacity read.
C24_IdentitySkipped ==
    /\ ev.op = "complete"
    /\ ev.state = "kBBatteryStatusCmd"
    /\ me.fMachinePath = kExistingBatteryPath
    /\ ev.issued = <<"kBRemainingCapacityCmd">>

(***************************************************************************)
(* Watchdog arming, decode flags, poll requests                            *)
(***************************************************************************)
\* C25: a handler that runs state 0 leaves the watchdog armed for
\* kBatteryReadAllTimeout, whether it starts or restarts a sequence, and the
\* handler that runs the terminal state leaves it disarmed.
C25_WatchdogArmedAtStart ==
    /\ ev.state = StartState => me.fBatteryReadAllTimer = kBatteryReadAllTimeout
    /\ (ev.op = "complete" /\ ev.state = "kBCurrentCmd") => me.fBatteryReadAllTimer = 0

\* A restart asked for by the watchdog, which had fired, arms it again.
C25_RestartRearms ==
    /\ ev.op = "complete"
    /\ ev.reboot
    /\ ev.state = StartState
    /\ me.fBatteryReadAllTimer = kBatteryReadAllTimeout

\* C26: a change of the inflow-disabled or charge-inhibited flag asks for a
\* poll on the ExistingBattery path (started at once, or flagged as a
\* restart), and a sequence decoded while a flag is set reports AC not
\* connected when inflow is disabled and not charging when charge is
\* inhibited.
C26_FlagsOverrideRawBits ==
    /\ ev.op \in {"inflow", "inhibit"}
         => /\ me.fMachinePath = kExistingBatteryPath
            /\ ev.issued = <<"kMStateContCmd">> \/ me.fRebootPolling
    /\ (ev.op = "complete" /\ ev.state = "kMStateContCmd" /\ me.fInflowDisabled)
         => (Stored("ExternalConnected", FALSE) /\ ~me.fACConnected)
    /\ (ev.op = "complete" /\ ev.state = "kMStateCmd" /\ me.fChargeInhibited)
         => Stored("IsCharging", FALSE)

\* C27: a poll request made while a sequence is in flight issues no
\* transaction; the next completion runs state 0 once, whatever the number of
\* requests before it, and leaves the restart flag clear, so that no later
\* completion runs state 0 for them.
C27_RequestsInFlightIdempotent ==
    [][/\ (me.fPollingNow
             /\ ev'.op \in {"inserted", "inflow", "inhibit", "unstall", "watchdog"})
          => (ev'.issued = <<>> /\ smbus' = smbus)
       /\ (me.fPollingNow /\ me.fRebootPolling /\ ev'.op = "complete")
          => /\ ev'.state = StartState
             /\ ev'.issued = <<"kMStateContCmd">>
             /\ ~me'.fRebootPolling
       /\ (ev'.op = "complete" /\ ev'.state = StartState /\ ev'.published = <<>>)
          => me.fRebootPolling]_vars

\* C27 amended: the same, for a completion at which no cancellation is
\* pending.
C27_RequestsInFlightIdempotentUnlessCancelled ==
    [][/\ (me.fPollingNow
             /\ ev'.op \in {"inserted", "inflow", "inhibit", "unstall", "watchdog"})
          => (ev'.issued = <<>> /\ smbus' = smbus)
       /\ (me.fPollingNow /\ me.fRebootPolling /\ ~me.fCancelPolling
             /\ ev'.op = "complete")
          => /\ ev'.state = StartState
             /\ ev'.issued = <<"kMStateContCmd">>
             /\ ~me'.fRebootPolling
       /\ (ev'.op = "complete" /\ ev'.state = StartState /\ ev'.published = <<>>)
          => me.fRebootPolling]_vars

\* Two requests were made before one completion, which restarted the sequence
\* once.
C27_TwoRequestsOneRestart ==
    /\ ev.op = "complete"
    /\ ev.reboot
    /\ ev.state = StartState
    /\ ev.issued = <<"kMStateContCmd">>
    /\ hist.servedRequests = 2
    /\ ~me.fRebootPolling

(***************************************************************************)
(* Error records, countdown, poll timer                                    *)
(***************************************************************************)
\* C28: a zero remaining capacity accepted at once because the battery is
\* fully discharged logs no zero-capacity error, and a full-charge-capacity
\* read that has definitively failed logs one.
C28_ZeroCapacityErrorOnlyAfterRetries ==
    /\ (ev.op = "complete" /\ ev.state = "kBRemainingCapacityCmd"
          /\ ev.zeroRead /\ me.fFullyDischarged /\ hist.reissued = 0)
         => "kErrorZeroCapacity" \notin ev.logged
    /\ (ev.op = "complete" /\ ev.state = "kBFullChargeCapacityCmd"
          /\ ev.status \in {"Retryable", "NonRecoverable"})
         => "kErrorZeroCapacity" \in ev.logged

\* C29 as stated: while the initial-boot countdown is above 0, the completion
\* of the terminal state arms the poll timer and counts the countdown down by
\* one; the countdown changes at no other step and never below 0.
C29_CountdownForcesPolls ==
    [][/\ ("final" \in Published(ev') /\ me.fInitialPollCountdown > 0)
          => /\ me'.fPollTimer # 0
             /\ me'.fInitialPollCountdown = me.fInitialPollCountdown - 1
       /\ me'.fInitialPollCountdown # me.fInitialPollCountdown
          => ("final" \in Published(ev') /\ me.fInitialPollCountdown > 0)
       /\ me'.fInitialPollCountdown >= 0]_vars

\* C29 amended: the same, unless a debug override of 0 is active, under which
\* the terminal state starts the next sequence at once and leaves timer and
\* countdown alone.
C29_CountdownForcesPollsUnlessOverrideZero ==
    [][/\ ("final" \in Published(ev') /\ me.fInitialPollCountdown > 0
             /\ ~(me.fPollingOverridden /\ me.fPollingInterval = 0))
          => /\ me'.fPollTimer # 0
             /\ me'.fInitialPollCountdown = me.fInitialPollCountdown - 1
       /\ ("final" \in Published(ev') /\ me.fPollingOverridden /\ me.fPollingInterval = 0)
          => /\ me'.fPollTimer = 0
             /\ me'.fInitialPollCountdown = me.fInitialPollCountdown
       /\ me'.fInitialPollCountdown # me.fInitialPollCountdown
          => ("final" \in Published(ev') /\ me.fInitialPollCountdown > 0)
       /\ me'.fInitialPollCountdown >= 0]_vars

\* The fifth sequence of a fully charged battery on AC arms the poll timer.
C29_FifthSequenceArms ==
    /\ "final" \in Published(ev)
    /\ me.fACConnected
    /\ me.fFullyCharged
    /\ me.fBatteryPresent
    /\ ~me.fPollingOverridden
    /\ me.fInitialPollCountdown = 0
    /\ me.fPollTimer # 0

\* C30: a poll-timer expiry while no sequence is in flight and no stall is
\* active starts a sequence on the existing-battery path; an expiry while a
\* sequence is in flight changes nothing but the expired timer: not the
\* machine path, not the restart flag, and no transaction is issued.
C30_PollTimerExpiry ==
    [][ev'.op = "pollTimer"
          => /\ (~me.fPollingNow /\ ~me.fStalledByUserClient)
                  => /\ me'.fPollingNow
                     /\ me'.fMachinePath = kExistingBatteryPath
                     /\ ev'.issued = <<"kMStateContCmd">>
             /\ me.fPollingNow
                  => /\ me' = [me EXCEPT !.fPollTimer = 0]
                     /\ smbus' = smbus
                     /\ ev'.issued = <<>>]_vars

\* The poll timer has expired while a sequence was in flight.
C30_ExpiredInFlight ==
    /\ ev.op = "pollTimer"
    /\ me.fPollingNow
    /\ ~me.fRebootPolling
    /\ ev.issued = <<>>
    /\ smbus # <<>>

\* The poll timer has expired at rest and started a sequence.
C30_ExpiredAtRest ==
    /\ ev.op = "pollTimer"
    /\ ev.issued = <<"kMStateContCmd">>
    /\ me.fMachinePath = kExistingBatteryPath

(***************************************************************************)
(* Implicit properties of the sequencer                                    *)
(***************************************************************************)
\* C31: whenever a command other than the one just completed is issued, and
\* whenever a sequence starts or restarts at state 0, the consecutive-retry
\* counter is 0, also after a non-recoverable status that follows retryable
\* failures and after a restart in the middle of a retry series.
C31_FreshRetryBudget ==
    (ev.issued # <<>> /\ ~ev.retried) => me.fRetryAttempts = 0

\* C32: a retry re-issues the failed transaction with its own protocol: a
\* block read (manufacturer name, device name) that failed with a retryable
\* status is retried as a block read, never as a word read.
C32_RetryKeepsProtocol ==
    (ev.retried /\ ev.command \in BlockCmds /\ smbus # <<>>)
        => smbus[Len(smbus)].protocol = "kIOSMBusProtocolReadBlock"

\* C33: the watchdog is armed only while a sequence is in flight: every way
\* a sequence ends leaves it disarmed.
C33_WatchdogOnlyInFlight ==
    me.fBatteryReadAllTimer # 0 => me.fPollingNow

\* C34: the poll timer is never armed while a sequence is in flight: while it
\* is armed the driver is not polling and no read of a sequence is outstanding.
C34_PollTimerOnlyAtRest ==
    me.fPollTimer # 0 => (~me.fPollingNow /\ smbus = <<>>)

\* C35: the provider's full-discharge handler is invoked exactly when the
\* fully-discharged flag goes from false to true; the flag goes back to false
\* only with the completion of a battery-status read or a clear of the battery
\* state, so sequences that keep reading the bit set invoke it only once.
C35_FullDischargeOncePerTransition ==
    [][/\ ev'.fullDischarge
            => /\ ~me.fFullyDischarged
               /\ ev'.state = "kBBatteryStatusCmd"
               /\ ev'.status = "Ok"
               /\ (me'.fFullyDischarged \/ "cleared" \in Published(ev'))
       /\ (~me.fFullyDischarged /\ me'.fFullyDischarged) => ev'.fullDischarge
       /\ (me.fFullyDischarged /\ ~me'.fFullyDischarged)
            => \/ ev'.state = "kBBatteryStatusCmd"
               \/ "cleared" \in Published(ev')]_vars

\* A later sequence has read the fully-discharged bit set again and the handler
\* was not invoked a second time.
C35_SecondReadNotHandled ==
    /\ ev.op = "complete"
    /\ ev.state = "kBBatteryStatusCmd"
    /\ ev.status = "Ok"
    /\ me.fFullyDischarged
    /\ ~ev.fullDischarge

\* The voltage the completed read of a cell contributes: 0 for a failed read.
CellVoltageRead(cmd) == IF ev.status = "Ok" THEN CellNumber(cmd) ELSE 0

\* C36: the cell-voltage list holds, after the read of cell k, exactly the k
\* voltages of cells 1 to k read in this sequence, in order and 0 for a failed
\* read; the list published after cell 4 holds exactly 4 entries, and nothing
\* of an earlier, unfinished sequence is mixed into it.
C36_CellVoltagesOfThisSequence ==
    (ev.op = "complete" /\ ev.state \in CellVoltageCmds)
      => LET k == CellNumber(ev.state)
             array == IF k = 4
                        THEN (IF "CellVoltage" \in DOMAIN ev.stored
                                THEN ev.stored["CellVoltage"] ELSE NullCellVoltages)
                        ELSE me.fCellVoltages
         IN  /\ ~array.null
             /\ Len(array.values) = k
             /\ array.values[k] = CellVoltageRead(ev.state)
             /\ \A j \in 1..k : array.values[j] \in {0, j}
             /\ k = 4 => me.fCellVoltages.null

\* C37: the AC-connected value the controller-status case stores in the
\* snapshot equals the internal AC-connected flag, also after a failed
\* controller-status read.
C37_PublishedACIsInternalAC ==
    (ev.op = "complete" /\ ev.state = "kMStateContCmd")
        => /\ "ExternalConnected" \in DOMAIN ev.stored
           /\ ev.stored["ExternalConnected"] = me.fACConnected

\* C38: the consecutive-retry counter stays within 0..kRetryAttempts, and the
\* index a retry reads the delay table with stays within the table.
C38_RetryCounterInRange ==
    /\ me.fRetryAttempts \in 0..kRetryAttempts
    /\ ev.retried
         => /\ me.fRetryAttempts \in 1..Len(microSecDelayTable)
            /\ ev.delay = microSecDelayTable[me.fRetryAttempts]

\* The fifth consecutive retry has been made, with the last entry of the table.
C38_FifthRetry ==
    /\ ev.retried
    /\ me.fRetryAttempts = kRetryAttempts
    /\ ev.delay = microSecDelayTable[Len(microSecDelayTable)]

\* C39: a cancellation is requested only while a sequence is in flight: in
\* every state fCancelPolling implies fPollingNow, and a sequence started from
\* idle starts with no cancellation pending.
C39_CancelOnlyInFlight ==
    /\ me.fCancelPolling => me.fPollingNow
    /\ ev.state = StartState => ~me.fCancelPolling

\* A removal or a stall has asked a sequence in flight to stop.
C39_CancelRequested ==
    /\ ev.op \in {"removed", "stall"}
    /\ me.fCancelPolling
    /\ me.fPollingNow
    /\ smbus # <<>>

====
